---- MODULE Spec2Model ----
(***************************************************************************)
(* Mo Flag Knowledge (src/script.js): the SM-2 review scheduler, the       *)
(* session queue builder, the in-session retry queue and the session       *)
(* controller, as one state machine.                                       *)
(*                                                                         *)
(* Numbers.  easeFactor is kept in hundredths (2.5 is 250): every value    *)
(* the code stores is a multiple of 0.01 up to double rounding error, and  *)
(* Math.round(interval * easeFactor) agrees with the integer computation   *)
(* below for every interval < 25 and easeFactor <= 4.0 (the first double   *)
(* product that rounds the other way is 25 * 2.26), which is why           *)
(* MaxInterval guards the calls.  Timestamps are counted in slots,         *)
(* SlotsPerDay of them to a calendar day; slot 0 of a day is its midnight. *)
(*                                                                         *)
(* Display.  The answer options, the score, the streak, XP and the timer   *)
(* feed the display only; the controller actions leave them out, and the   *)
(* distractor selector is examined on its own (SpecSelect).                *)
(***************************************************************************)
EXTENDS Integers, Sequences, FiniteSets, TLC

VARIABLES
    countries,          \* the catalog, a sequence of items
    cards,              \* code -> SRS card, created lazily
    now,                \* the wall clock (new Date()), in slots
    currentMode,
    selectedContinent,  \* gameState.selectedContinent
    queue,              \* gameState.queue
    queueUndefined,     \* gameState.queue holds undefined, not an array
    retryQueue,         \* gameState.retryQueue
    currentCountry,     \* gameState.currentCountry
    questionCount,      \* gameState.questionCount
    answered,           \* gameState.answered
    screen,             \* the active .screen element
    complete,           \* #complete-overlay is active
    pending,            \* advance callbacks set by showAnswerFeedback, not yet run
    events,             \* clicks, answers and clock ticks so far
    storage,            \* localStorage item flagmaster_cards
    lastCall,           \* the most recent scheduler call and the card it found
    lastStep,           \* the most recent controller step and the queues it found
    trail,              \* the misses and retry questions of the session, in order
    lastSelect          \* the most recent getDistractors call and its answer

vars == <<countries, cards, now, currentMode, selectedContinent, queue,
          queueUndefined, retryQueue, currentCountry, questionCount, answered,
          screen, complete, pending, events, storage, lastCall, lastStep,
          trail, lastSelect>>

\* gameState, the screen and the history of the session
gameVars == <<currentMode, selectedContinent, queue, queueUndefined,
              retryQueue, currentCountry, questionCount, answered, screen,
              complete, pending, events, lastStep, trail>>

\* what a scheduler call followed by saveData() leaves alone
schedFrame == <<gameVars, lastSelect>>

sessionVars == <<schedFrame, storage>>

-----------------------------------------------------------------------------
(* Bounds of the model *)

SlotsPerDay == 2        \* clock readings told apart within one calendar day
MaxEvents == 5          \* clicks, answers and clock ticks after the page is opened
MaxReps == 3            \* recordCorrect is not called on a card with this many repetitions
MaxInterval == 20       \* no correct answer is recorded on a card with a longer interval

-----------------------------------------------------------------------------
(* Program constants *)

NEW_CARDS_PER_SESSION == 15
CONTINENT_NEW_CARDS_PER_SESSION == 8
SESSION_RETRY_GAPS == <<2, 5, 9>>

EF_FLOOR == 130         \* 1.3
EF_DEFAULT == 250       \* 2.5
Null == -1              \* nextReviewDate: null

-----------------------------------------------------------------------------
(* Dates *)

\* setHours(0, 0, 0, 0): the midnight that starts the day of t
Midnight(t) == (t \div SlotsPerDay) * SlotsPerDay

\* setDate(getDate() + days), then setHours(0, 0, 0, 0)
addDays(date, days) == Midnight(date + days * SlotsPerDay)

-----------------------------------------------------------------------------
(* SM-2 *)

FreshCard ==
    [easeFactor |-> EF_DEFAULT, interval |-> 0, repetitions |-> 0,
     nextReviewDate |-> Null, lapses |-> 0]

\* the card getCard returns
getCard(cs, code) == IF code \in DOMAIN cs THEN cs[code] ELSE FreshCard

\* the card map once getCard has run
Touch(cs, code) ==
    IF code \in DOMAIN cs THEN cs
    ELSE [c \in DOMAIN cs \cup {code} |-> IF c = code THEN FreshCard ELSE cs[c]]

Put(cs, code, card) ==
    [c \in DOMAIN cs \cup {code} |-> IF c = code THEN card ELSE cs[c]]

Max(a, b) == IF a >= b THEN a ELSE b
Min(a, b) == IF a <= b THEN a ELSE b

\* Math.round of n hundredths
RoundHundredths(n) == (n + 50) \div 100

\* 0.1 - (5 - q) * (0.08 + (5 - q) * 0.02), in hundredths
EaseDelta(q) == 10 - (5 - q) * (8 + (5 - q) * 2)

\* the ease factor without Math.max(1.3, ...)
NewEaseNoFloor(ef, q) == ef + EaseDelta(q)

NewEase(ef, q) == Max(EF_FLOOR, ef + EaseDelta(q))

\* the interval without the step from 1 to 6
NewIntervalNoSix(card, ef) ==
    IF card.repetitions = 0 THEN 1
    ELSE RoundHundredths(card.interval * ef)

\* the interval computed from the ease factor the card had before the answer
NewIntervalOldEase(card, ef) ==
    IF card.repetitions = 0 THEN 1
    ELSE IF card.repetitions = 1 THEN 6
    ELSE RoundHundredths(card.interval * card.easeFactor)

\* ef is the ease factor just stored in the card
NewInterval(card, ef) ==
    IF card.repetitions = 0 THEN 1
    ELSE IF card.repetitions = 1 THEN 6
    ELSE RoundHundredths(card.interval * ef)

processCorrect(card, q, t) ==
    LET ef == NewEase(card.easeFactor, q)
        iv == NewInterval(card, ef)
    IN  [easeFactor |-> ef, interval |-> iv,
         repetitions |-> card.repetitions + 1,
         nextReviewDate |-> addDays(t, iv),
         lapses |-> card.lapses]

LapseEase(ef) == Max(EF_FLOOR, ef - 20)

\* a lapse that forgets to reset repetitions
processIncorrectKeepReps(card, t) ==
    [repetitions |-> card.repetitions, interval |-> 1,
     lapses |-> card.lapses + 1,
     easeFactor |-> LapseEase(card.easeFactor),
     nextReviewDate |-> addDays(t, 1)]

processIncorrect(card, t) ==
    [repetitions |-> 0, interval |-> 1,
     lapses |-> card.lapses + 1,
     easeFactor |-> LapseEase(card.easeFactor),
     nextReviewDate |-> addDays(t, 1)]

\* !card.nextReviewDate
Unset(d) == d = Null \/ d = 0

\* isDue without the test of repetitions
isDueAnyReps(card, t) ==
    IF Unset(card.nextReviewDate) THEN TRUE
    ELSE card.nextReviewDate <= Midnight(t)

\* the comparison without today.setHours(0, 0, 0, 0)
isDueNoMidnight(card, t) ==
    IF card.repetitions = 0 THEN FALSE
    ELSE IF Unset(card.nextReviewDate) THEN TRUE
    ELSE card.nextReviewDate <= t

isDue(card, t) ==
    IF card.repetitions = 0 THEN FALSE
    ELSE IF Unset(card.nextReviewDate) THEN TRUE
    ELSE card.nextReviewDate <= Midnight(t)

-----------------------------------------------------------------------------
(* Persistence *)

\* JSON.stringify(cards): one member per code
Stringify(cs) == {[key |-> c, value |-> cs[c]] : c \in DOMAIN cs}

\* JSON.parse(text)
Parse(text) ==
    [c \in {m.key : m \in text} |-> (CHOOSE m \in text : m.key = c).value]

\* localStorage.getItem answers null
NoItem == [present |-> FALSE, text |-> {}]

\* the item as an earlier visit left it, cs being the cards it had
StoredItem(cs) ==
    IF DOMAIN cs = {} THEN NoItem ELSE [present |-> TRUE, text |-> Stringify(cs)]

\* loadData(): cards stays {} when nothing is stored
loadData(item) == IF item.present THEN Parse(item.text) ELSE <<>>

\* a saveData() that writes nothing
saveDataSkipped(item, cs) == item

\* the item saveData() leaves behind
saveData(item, cs) == [present |-> TRUE, text |-> Stringify(cs)]

-----------------------------------------------------------------------------
(* The catalog *)

MaxCatalog == 4         \* the largest catalog a session is played on
MaxShuffle == 2         \* arrays up to this length are shuffled into every order

\* item i of a catalog: every third item lies on continent "Y", the rest on "X"
Item(i) == [code |-> i, continent |-> IF i % 3 = 0 THEN "Y" ELSE "X"]

Catalog(n) == [i \in 1..n |-> Item(i)]

Continents == {"X", "Y"}

\* null, where a country is expected
NoCountry == [code |-> 0, continent |-> "none"]

Range(s) == {s[i] : i \in 1..Len(s)}

CodesOf(s) == {s[i].code : i \in 1..Len(s)}

RECURSIVE Filter(_, _)
\* s.filter(c => c \in keep), keep a set of items
Filter(s, keep) ==
    IF s = <<>> THEN <<>>
    ELSE IF Head(s) \in keep THEN <<Head(s)>> \o Filter(Tail(s), keep)
    ELSE Filter(Tail(s), keep)

Rotate(s, k) == [i \in 1..Len(s) |-> s[((i + k - 1) % Len(s)) + 1]]

\* the arrays shuffleArray can leave behind: every order of a short array,
\* the rotations of a longer one
Shuffles(s) ==
    IF Len(s) <= MaxShuffle
    THEN {p \in [1..Len(s) -> Range(s)] :
             \A i, j \in 1..Len(s) : i # j => p[i] # p[j]}
    ELSE {Rotate(s, k) : k \in 0..(Len(s) - 1)}

-----------------------------------------------------------------------------
(* Session queue builder *)

RECURSIVE PushUnused(_, _, _)
\* the loop "if (!used.has(c.code)) { queue.push(c); used.add(c.code) }" over s
PushUnused(q, used, s) ==
    IF s = <<>> THEN q
    ELSE IF Head(s).code \in used THEN PushUnused(q, used, Tail(s))
    ELSE PushUnused(Append(q, Head(s)), used \cup {Head(s).code}, Tail(s))

DuePartition(pool, cs, t) ==
    Filter(pool, {c \in Range(pool) : isDue(getCard(cs, c.code), t)})

NewPartition(pool, cs) ==
    Filter(pool, {c \in Range(pool) : getCard(cs, c.code).repetitions = 0})

\* the blend without the bound i < newPerSession
BlendNoLimit(due, newCards, newPerSession) ==
    LET q1 == PushUnused(<<>>, {}, due)
    IN  PushUnused(q1, CodesOf(q1), newCards)

\* the queue built from the two shuffled partitions
Blend(due, newCards, newPerSession) ==
    LET q1 == PushUnused(<<>>, {}, due)
        taken == SubSeq(newCards, 1, Min(newPerSession, Len(newCards)))
    IN  PushUnused(q1, CodesOf(q1), taken)

\* every queue buildSrsQueue(pool, newPerSession) can return
buildSrsQueue(pool, newPerSession, cs, t) ==
    {Blend(d, n, newPerSession) :
        d \in Shuffles(DuePartition(pool, cs, t)),
        n \in Shuffles(NewPartition(pool, cs))}

ContinentPool(cat, continent) ==
    Filter(cat, {c \in Range(cat) : c.continent = continent})

Unrestricted(mode) == mode \in {"endless", "timed"}

\* the catalog entries buildQueue reads cards of
PoolOf(mode, cat, continent) ==
    IF Unrestricted(mode) THEN <<>>
    ELSE IF mode = "continent" THEN ContinentPool(cat, continent)
    ELSE cat

NewPerSession(mode) ==
    IF mode = "continent" THEN CONTINENT_NEW_CARDS_PER_SESSION
    ELSE NEW_CARDS_PER_SESSION

\* what "return shuffleArray([...countries])" hands back: shuffleArray has
\* no return statement, so the caller gets undefined
ShuffledCatalogResult(cat) == [undefined |-> TRUE, queue |-> <<>>]

\* every value buildQueue() can return
buildQueue(mode, cat, continent, cs, t) ==
    IF Unrestricted(mode) THEN {ShuffledCatalogResult(cat)}
    ELSE {[undefined |-> FALSE, queue |-> q] :
             q \in buildSrsQueue(PoolOf(mode, cat, continent),
                                 NewPerSession(mode), cs, t)}

RECURSIVE TouchAll(_, _)
\* the card map once getCard has run on every code of the set
TouchAll(cs, codes) ==
    IF codes = {} THEN cs
    ELSE LET c == CHOOSE x \in codes : TRUE
         IN  TouchAll(Touch(cs, c), codes \ {c})

-----------------------------------------------------------------------------
(* Retry queue *)


LastStepIndex == Len(SESSION_RETRY_GAPS) - 1    \* SESSION_RETRY_GAPS.length - 1

\* retryQueue.findIndex(r => r.code === code), 0 when there is none
IndexOfCode(rq, code) ==
    IF \E i \in 1..Len(rq) : rq[i].code = code
    THEN CHOOSE i \in 1..Len(rq) :
            rq[i].code = code /\ \A j \in 1..(i - 1) : rq[j].code # code
    ELSE 0

\* scheduling without the lookup of an existing entry
scheduleSessionRetryPush(rq, country, tick) ==
    Append(rq, [code |-> country.code, country |-> country, step |-> 0,
                nextAt |-> tick + SESSION_RETRY_GAPS[1]])

scheduleSessionRetry(rq, country, tick) ==
    LET i == IndexOfCode(rq, country.code)
    IN  IF i > 0
        THEN [rq EXCEPT ![i] = [@ EXCEPT !.step = 0, !.nextAt = tick + 1]]
        ELSE Append(rq, [code |-> country.code, country |-> country, step |-> 0,
                         nextAt |-> tick + SESSION_RETRY_GAPS[1]])

\* e put into the sorted s behind every entry that is not later than it
InsertByNextAt(s, e) ==
    LET k == Cardinality({i \in 1..Len(s) : s[i].nextAt <= e.nextAt})
    IN  SubSeq(s, 1, k) \o <<e>> \o SubSeq(s, k + 1, Len(s))

RECURSIVE SortByNextAt(_)
\* retryQueue.sort((a, b) => a.nextAt - b.nextAt), a stable sort
SortByNextAt(rq) ==
    IF rq = <<>> THEN <<>>
    ELSE InsertByNextAt(SortByNextAt(SubSeq(rq, 1, Len(rq) - 1)), rq[Len(rq)])

\* the first entry, due or not
FirstIndex(rq, tick) == IF Len(rq) > 0 THEN 1 ELSE 0

\* retryQueue.findIndex(r => r.nextAt <= tick), 0 when there is none
FirstDueIndex(rq, tick) ==
    IF \E i \in 1..Len(rq) : rq[i].nextAt <= tick
    THEN CHOOSE i \in 1..Len(rq) :
            rq[i].nextAt <= tick /\ \A j \in 1..(i - 1) : rq[j].nextAt > tick
    ELSE 0

RemoveAt(s, i) == SubSeq(s, 1, i - 1) \o SubSeq(s, i + 1, Len(s))

\* popDueRetryCountry taking the gap of the step the entry leaves
popDueRetryCountrySameGap(rq, tick) ==
    IF Len(rq) = 0 THEN [retryQueue |-> rq, country |-> NoCountry]
    ELSE LET sorted == SortByNextAt(rq)
             idx == FirstDueIndex(sorted, tick)
         IN  IF idx = 0 THEN [retryQueue |-> sorted, country |-> NoCountry]
             ELSE IF sorted[idx].step >= LastStepIndex
             THEN [retryQueue |-> RemoveAt(sorted, idx),
                   country |-> sorted[idx].country]
             ELSE [retryQueue |->
                      [sorted EXCEPT ![idx] =
                          [@ EXCEPT !.step = sorted[idx].step + 1,
                                    !.nextAt = tick + SESSION_RETRY_GAPS[sorted[idx].step + 1]]],
                   country |-> sorted[idx].country]

\* popDueRetryCountry without "item.step += 1"
popDueRetryCountryKeepStep(rq, tick) ==
    IF Len(rq) = 0 THEN [retryQueue |-> rq, country |-> NoCountry]
    ELSE LET sorted == SortByNextAt(rq)
             idx == FirstDueIndex(sorted, tick)
         IN  IF idx = 0 THEN [retryQueue |-> sorted, country |-> NoCountry]
             ELSE IF sorted[idx].step >= LastStepIndex
             THEN [retryQueue |-> RemoveAt(sorted, idx),
                   country |-> sorted[idx].country]
             ELSE [retryQueue |->
                      [sorted EXCEPT ![idx] =
                          [@ EXCEPT !.nextAt = tick + SESSION_RETRY_GAPS[sorted[idx].step + 1]]],
                   country |-> sorted[idx].country]

\* popDueRetryCountry leaving an entry on its last step in the queue
popDueRetryCountryNoRemove(rq, tick) ==
    IF Len(rq) = 0 THEN [retryQueue |-> rq, country |-> NoCountry]
    ELSE LET sorted == SortByNextAt(rq)
             idx == FirstDueIndex(sorted, tick)
         IN  IF idx = 0 THEN [retryQueue |-> sorted, country |-> NoCountry]
             ELSE IF sorted[idx].step >= LastStepIndex
             THEN [retryQueue |-> sorted, country |-> sorted[idx].country]
             ELSE [retryQueue |->
                      [sorted EXCEPT ![idx] =
                          [@ EXCEPT !.step = sorted[idx].step + 1,
                                    !.nextAt = tick + SESSION_RETRY_GAPS[sorted[idx].step + 2]]],
                   country |-> sorted[idx].country]

\* the queue left behind and the country returned (NoCountry for null)
popDueRetryCountry(rq, tick) ==
    IF Len(rq) = 0 THEN [retryQueue |-> rq, country |-> NoCountry]
    ELSE LET sorted == SortByNextAt(rq)
             idx == FirstDueIndex(sorted, tick)
         IN  IF idx = 0 THEN [retryQueue |-> sorted, country |-> NoCountry]
             ELSE IF sorted[idx].step >= LastStepIndex
             THEN [retryQueue |-> RemoveAt(sorted, idx),
                   country |-> sorted[idx].country]
             ELSE [retryQueue |->
                      [sorted EXCEPT ![idx] =
                          [@ EXCEPT !.step = sorted[idx].step + 1,
                                    !.nextAt = tick + SESSION_RETRY_GAPS[sorted[idx].step + 2]]],
                   country |-> sorted[idx].country]

-----------------------------------------------------------------------------
(* Session controller *)

Modes == {"normal", "hard", "continent", "endless", "timed"}

Outcome(country, q, qUndef, rq, threw, src) ==
    [country |-> country, queue |-> q, queueUndefined |-> qUndef,
     retryQueue |-> rq, threw |-> threw, src |-> src]

\* getNextCountry without the branch that forces the earliest retry entry
AfterNoRetryDueNoForce(mode, q, qUndef, rq, tick, rebuilds) ==
    IF qUndef THEN {Outcome(NoCountry, q, qUndef, rq, TRUE, "threw")}
    ELSE IF Len(q) = 0 THEN {Outcome(NoCountry, q, qUndef, rq, FALSE, "none")}
    ELSE {Outcome(Head(q), Tail(q), qUndef, rq, FALSE, "main")}

\* getNextCountry once the first popDueRetryCountry() has returned null and
\* left rq behind; reading .length of an undefined queue throws a TypeError.
\* rebuilds holds the values buildQueue() can return if it is called
AfterNoRetryDue(mode, q, qUndef, rq, tick, rebuilds) ==
    IF qUndef THEN {Outcome(NoCountry, q, qUndef, rq, TRUE, "threw")}
    ELSE IF Len(q) = 0 /\ Unrestricted(mode)
    THEN {IF rebuilt.undefined
          THEN Outcome(NoCountry, <<>>, TRUE, rq, TRUE, "threw")
          ELSE IF Len(rebuilt.queue) = 0
               THEN Outcome(NoCountry, <<>>, FALSE, rq, FALSE, "none")
               ELSE Outcome(Head(rebuilt.queue), Tail(rebuilt.queue), FALSE,
                            rq, FALSE, "main") : rebuilt \in rebuilds}
    ELSE IF Len(q) = 0 /\ Len(rq) > 0
    THEN LET sorted == SortByNextAt(rq)
             forced == [sorted EXCEPT ![1] = [@ EXCEPT !.nextAt = tick]]
             r == popDueRetryCountry(forced, tick)
         IN  {Outcome(r.country, q, qUndef, r.retryQueue, FALSE, "forced")}
    ELSE IF Len(q) = 0 THEN {Outcome(NoCountry, q, qUndef, rq, FALSE, "none")}
    ELSE {Outcome(Head(q), Tail(q), qUndef, rq, FALSE, "main")}

\* getNextCountry taking the main queue before the retry queue
getNextCountryMainFirst(mode, q, qUndef, rq, tick, rebuilds) ==
    IF ~qUndef /\ Len(q) > 0
    THEN {Outcome(Head(q), Tail(q), qUndef, rq, FALSE, "main")}
    ELSE LET r == popDueRetryCountry(rq, tick)
         IN  IF r.country # NoCountry
             THEN {Outcome(r.country, q, qUndef, r.retryQueue, FALSE, "retry")}
             ELSE AfterNoRetryDue(mode, q, qUndef, r.retryQueue, tick, rebuilds)

\* every answer of getNextCountry(): the country, the queues left behind,
\* and whether it threw
getNextCountry(mode, q, qUndef, rq, tick, rebuilds) ==
    LET r == popDueRetryCountry(rq, tick)
    IN  IF r.country # NoCountry
        THEN {Outcome(r.country, q, qUndef, r.retryQueue, FALSE, "retry")}
        ELSE AfterNoRetryDue(mode, q, qUndef, r.retryQueue, tick, rebuilds)

-----------------------------------------------------------------------------
(* History: what the last call found, for stating what it did *)

\* run: how many correct answers of quality 4 the card has had in a row
\* since it was a fresh card, 0 when the row is broken
NoCall ==
    [op |-> "none", code |-> 0, quality |-> 0, card |-> FreshCard, at |-> 0,
     due |-> FALSE, run |-> 0]

Call(op, code, q, card, t, due, run) ==
    [op |-> op, code |-> code, quality |-> q, card |-> card, at |-> t,
     due |-> due, run |-> run]

\* the run after a correct answer of quality q on card, prev being the call before
RunAfter(prev, code, q, card) ==
    IF q # 4 THEN 0
    ELSE IF card = FreshCard THEN 1
    ELSE IF prev.code = code /\ prev.run > 0 THEN prev.run + 1
    ELSE 0

\* op: the handler; tick, retry, queue: questionCount, retryQueue and queue
\* when it called getNextCountry or scheduleSessionRetry; src, country: what
\* getNextCountry answered; correct: the verdict of checkAnswer
Step(op, tick, rq, q, src, country, correct, t) ==
    [op |-> op, tick |-> tick, retry |-> rq, queue |-> q, src |-> src,
     country |-> country, correct |-> correct, at |-> t]

NoStep == Step("init", 0, <<>>, <<>>, "none", NoCountry, FALSE, 0)

\* one line of the trail: kind is "miss", "retry" or "forced"
Mark(kind, code, tick) == [kind |-> kind, code |-> code, tick |-> tick]

\* the trail once getNextCountry has answered r at tick
Trailed(tr, r, tick) ==
    IF r.src \in {"retry", "forced"}
    THEN Append(tr, Mark(r.src, r.country.code, tick))
    ELSE tr

NoSelect ==
    [target |-> NoCountry, count |-> 0, distractors |-> <<>>, options |-> <<>>]

-----------------------------------------------------------------------------
(* Handlers *)

\* a card as an earlier session left it
Reviewed(reps, interval, date) ==
    [easeFactor |-> EF_DEFAULT, interval |-> interval, repetitions |-> reps,
     nextReviewDate |-> date, lapses |-> 0]

\* the card maps loadData() may find stored: none, or one whose first item
\* fell due today and whose second item is scheduled for a later day
StoredCards(cat, t) ==
    {<<>>} \cup
    (IF Len(cat) >= 2
     THEN {[c \in {1, 2} |-> IF c = 1 THEN Reviewed(1, 1, Midnight(t))
                              ELSE Reviewed(2, 6, addDays(t, 5))]}
     ELSE {})

\* the clock reading when the page is opened: the second slot of day 3
Today == 3 * SlotsPerDay + 1

\* init(): the catalog is fetched, loadData() reads the stored cards, and
\* updateMenuStats() runs getCard on every catalog code
Init ==
    /\ countries \in {Catalog(n) : n \in 0..MaxCatalog}
    /\ now = Today
    /\ \E found \in StoredCards(countries, now) :
          /\ storage = StoredItem(found)
          /\ cards = TouchAll(loadData(StoredItem(found)), CodesOf(countries))
    /\ currentMode = "normal"
    /\ selectedContinent = "none"
    /\ queue = <<>>
    /\ queueUndefined = FALSE
    /\ retryQueue = <<>>
    /\ currentCountry = NoCountry
    /\ questionCount = 0
    /\ answered = FALSE
    /\ screen = "main-menu"
    /\ complete = FALSE
    /\ pending = 0
    /\ events = 0
    /\ lastCall = NoCall
    /\ lastStep = NoStep
    /\ trail = <<>>
    /\ lastSelect = NoSelect

\* the part of nextRound() after getNextCountry() has answered r
ApplyRound(r, tick) ==
    /\ queue' = r.queue
    /\ queueUndefined' = r.queueUndefined
    /\ retryQueue' = r.retryQueue
    /\ IF r.threw
       THEN /\ currentCountry' = currentCountry
            /\ questionCount' = tick
            /\ answered' = answered
            /\ complete' = complete
       ELSE IF r.country # NoCountry
       THEN /\ currentCountry' = r.country
            /\ questionCount' = tick + 1
            /\ answered' = FALSE
            /\ complete' = complete
       ELSE /\ currentCountry' = NoCountry
            /\ questionCount' = tick
            /\ answered' = answered
            /\ complete' = TRUE

\* a mode button, with the continent button for mode "continent"; the
\* buttons are on the main menu, out of reach under the complete overlay.
\* A timed session never reaches renderRound(), so its timer never starts
StartGame(mode, continent) ==
    /\ screen = "main-menu"
    /\ ~complete
    /\ events < MaxEvents
    /\ events' = events + 1
    /\ LET cont == IF mode = "continent" THEN continent ELSE selectedContinent
           touched == TouchAll(cards, CodesOf(PoolOf(mode, countries, cont)))
       IN  /\ selectedContinent' = cont
           /\ cards' = touched
           /\ \E built \in buildQueue(mode, countries, cont, cards, now) :
              \E r \in getNextCountry(mode, built.queue, built.undefined, <<>>,
                         0, buildQueue(mode, countries, cont, touched, now)) :
                /\ currentMode' = mode
                /\ screen' = "game-screen"
                /\ currentCountry' = r.country
                /\ answered' = FALSE
                /\ queue' = r.queue
                /\ queueUndefined' = r.queueUndefined
                /\ retryQueue' = r.retryQueue
                /\ questionCount' = IF r.country # NoCountry THEN 1 ELSE 0
                /\ complete' = (~r.threw /\ r.country = NoCountry)
                /\ lastStep' = Step("startGame", 0, <<>>, built.queue,
                                    r.src, r.country, FALSE, now)
                /\ trail' = Trailed(<<>>, r, 0)
    /\ UNCHANGED <<countries, now, pending, storage, lastCall, lastSelect>>

\* the callback showAnswerFeedback() sets: advanceToNextQuestion(), nextRound()
NextRound ==
    /\ pending > 0
    /\ pending' = pending - 1
    /\ \E r \in getNextCountry(currentMode, queue, queueUndefined, retryQueue,
                   questionCount,
                   buildQueue(currentMode, countries, selectedContinent,
                              cards, now)) :
          /\ ApplyRound(r, questionCount)
          /\ lastStep' = Step("nextRound", questionCount, retryQueue, queue,
                              r.src, r.country, FALSE, now)
          /\ trail' = Trailed(trail, r, questionCount)
    /\ UNCHANGED <<countries, cards, now, currentMode, selectedContinent,
                   screen, events, storage, lastCall, lastSelect>>

SrsScored(mode) == mode \in {"normal", "hard"}

\* checkAnswer(selectedName); isCorrect is the verdict of fuzzyMatch
Answer(isCorrect) ==
    /\ screen = "game-screen"
    /\ ~answered
    /\ answered' = TRUE
    /\ IF currentCountry = NoCountry
       THEN \* gameState.currentCountry.name throws
            UNCHANGED <<cards, retryQueue, pending, storage, lastCall,
                        lastStep, trail>>
       ELSE LET code == currentCountry.code
                card == getCard(cards, code)
            IN  /\ IF SrsScored(currentMode)
                   THEN /\ isCorrect => card.interval <= MaxInterval
                        /\ cards' = Put(cards, code,
                                        IF isCorrect
                                        THEN processCorrect(card, 4, now)
                                        ELSE processIncorrect(card, now))
                        /\ lastCall' =
                              IF isCorrect
                              THEN Call("processCorrect", code, 4, card, now,
                                        FALSE, RunAfter(lastCall, code, 4, card))
                              ELSE Call("processIncorrect", code, 4, card, now,
                                        FALSE, 0)
                   ELSE UNCHANGED <<cards, lastCall>>
                /\ retryQueue' = IF isCorrect THEN retryQueue
                                 ELSE scheduleSessionRetry(retryQueue,
                                          currentCountry, questionCount)
                /\ trail' = IF isCorrect THEN trail
                            ELSE Append(trail, Mark("miss", code, questionCount))
                /\ storage' = saveData(storage, cards')
                /\ pending' = pending + 1
                /\ lastStep' = Step("checkAnswer", questionCount, retryQueue,
                                    queue, "none", currentCountry, isCorrect,
                                    now)
    /\ UNCHANGED <<countries, now, currentMode, selectedContinent, queue,
                   queueUndefined, currentCountry, questionCount, screen,
                   complete, lastSelect>>

\* an option button, or the typed answer submitted
CheckAnswer(isCorrect) ==
    /\ events < MaxEvents
    /\ events' = events + 1
    /\ Answer(isCorrect)

\* #game-back
Back ==
    /\ screen = "game-screen"
    /\ events < MaxEvents
    /\ events' = events + 1
    /\ screen' = "main-menu"
    /\ complete' = FALSE
    /\ cards' = TouchAll(cards, CodesOf(countries))
    /\ lastStep' = [lastStep EXCEPT !.op = "back"]
    /\ UNCHANGED <<countries, now, currentMode, selectedContinent, queue,
                   queueUndefined, retryQueue, currentCountry, questionCount,
                   answered, pending, storage, lastCall, trail, lastSelect>>

\* #complete-continue
Continue ==
    /\ complete
    /\ events < MaxEvents
    /\ events' = events + 1
    /\ screen' = "main-menu"
    /\ complete' = FALSE
    /\ cards' = TouchAll(cards, CodesOf(countries))
    /\ lastStep' = [lastStep EXCEPT !.op = "continue"]
    /\ UNCHANGED <<countries, now, currentMode, selectedContinent, queue,
                   queueUndefined, retryQueue, currentCountry, questionCount,
                   answered, pending, storage, lastCall, trail, lastSelect>>

\* time passes
Tick ==
    /\ events < MaxEvents
    /\ events' = events + 1
    /\ now' = now + 1
    /\ UNCHANGED <<countries, cards, currentMode, selectedContinent, queue,
                   queueUndefined, retryQueue, currentCountry, questionCount,
                   answered, screen, complete, pending, storage, lastCall,
                   lastStep, trail, lastSelect>>

Next ==
    \/ \E mode \in Modes \ {"continent"} : StartGame(mode, selectedContinent)
    \/ \E continent \in Continents : StartGame("continent", continent)
    \/ NextRound
    \/ \E isCorrect \in BOOLEAN : CheckAnswer(isCorrect)
    \/ Back
    \/ Continue
    \/ Tick

Spec == Init /\ [][Next]_vars

-----------------------------------------------------------------------------
(* The review scheduler alone: recordCorrect and recordIncorrect as         *)
(* checkAnswer calls them, saveData() included, and isDue, on the card of   *)
(* one item, from any stored card                                           *)

MaxSchedLapses == 3     \* recordIncorrect is not called on a card with this many lapses
SchedCode == 1

\* cards as storage may hold them
SchedCards(t) ==
    {FreshCard} \cup
    [easeFactor : {EF_FLOOR, 137, 150, EF_DEFAULT, 280},
     interval : {0, 1, 6, 15},
     repetitions : 0..2,
     nextReviewDate : {Null, Midnight(t), t, addDays(t, 1)},
     lapses : {0, 1}]

InitSched ==
    /\ countries = Catalog(1)
    /\ now = Today
    /\ \E card \in SchedCards(now) :
          /\ storage = StoredItem(Put(<<>>, SchedCode, card))
          /\ cards = loadData(StoredItem(Put(<<>>, SchedCode, card)))
    /\ currentMode = "normal"
    /\ selectedContinent = "none"
    /\ queue = <<>>
    /\ queueUndefined = FALSE
    /\ retryQueue = <<>>
    /\ currentCountry = NoCountry
    /\ questionCount = 0
    /\ answered = FALSE
    /\ screen = "main-menu"
    /\ complete = FALSE
    /\ pending = 0
    /\ events = 0
    /\ lastCall = NoCall
    /\ lastStep = NoStep
    /\ trail = <<>>
    /\ lastSelect = NoSelect

RecordCorrect(code, q) ==
    LET card == getCard(cards, code)
    IN  /\ card.repetitions < MaxReps
        /\ card.interval <= MaxInterval
        /\ cards' = Put(cards, code, processCorrect(card, q, now))
        /\ lastCall' = Call("processCorrect", code, q, card, now, FALSE,
                            RunAfter(lastCall, code, q, card))
        /\ storage' = saveData(storage, cards')
        /\ UNCHANGED <<countries, now, schedFrame>>

RecordIncorrect(code) ==
    LET card == getCard(cards, code)
    IN  /\ card.lapses < MaxSchedLapses
        /\ cards' = Put(cards, code, processIncorrect(card, now))
        /\ lastCall' = Call("processIncorrect", code, 0, card, now, FALSE, 0)
        /\ storage' = saveData(storage, cards')
        /\ UNCHANGED <<countries, now, schedFrame>>

IsDueCall(code) ==
    LET card == getCard(cards, code)
    IN  /\ cards' = Touch(cards, code)
        /\ lastCall' = Call("isDue", code, 0, card, now, isDue(card, now),
                            IF lastCall.code = code THEN lastCall.run ELSE 0)
        /\ UNCHANGED <<countries, now, sessionVars>>

NextSched ==
    \/ \E q \in 3..5 : RecordCorrect(SchedCode, q)
    \/ RecordIncorrect(SchedCode)
    \/ IsDueCall(SchedCode)
    \/ Tick

SpecSched == InitSched /\ [][NextSched]_vars

-----------------------------------------------------------------------------
(* The queue builder on catalogs larger than the new-card allotments: one   *)
(* session is started from each stored card map                             *)

BuildCatalog == 20      \* the largest catalog a queue is built from

\* the stored card of item i: due today, scheduled for a later day, lapsed
\* (no repetitions, review date tomorrow), or reviewed with no date stored
StoredCard(i, t) ==
    IF i % 4 = 1 THEN Reviewed(1, 1, Midnight(t))
    ELSE IF i % 4 = 2 THEN Reviewed(2, 6, addDays(t, 5))
    ELSE IF i % 4 = 3
    THEN [easeFactor |-> 230, interval |-> 1, repetitions |-> 0,
          nextReviewDate |-> addDays(t, 1), lapses |-> 1]
    ELSE Reviewed(1, 1, Null)

InitBuild ==
    /\ countries \in {Catalog(n) : n \in (BuildCatalog - 2)..BuildCatalog}
    /\ now = Today
    /\ \E k \in 0..Len(countries) :
          LET item == StoredItem([i \in 1..k |-> StoredCard(i, now)])
          IN  /\ storage = item
              /\ cards = TouchAll(loadData(item), CodesOf(countries))
    /\ currentMode = "normal"
    /\ selectedContinent = "none"
    /\ queue = <<>>
    /\ queueUndefined = FALSE
    /\ retryQueue = <<>>
    /\ currentCountry = NoCountry
    /\ questionCount = 0
    /\ answered = FALSE
    /\ screen = "main-menu"
    /\ complete = FALSE
    /\ pending = 0
    /\ events = 0
    /\ lastCall = NoCall
    /\ lastStep = NoStep
    /\ trail = <<>>
    /\ lastSelect = NoSelect

\* the first session after the page is opened
FirstGame(mode, continent) == events = 0 /\ StartGame(mode, continent)

NextBuild ==
    \/ \E mode \in Modes \ {"continent"} : FirstGame(mode, selectedContinent)
    \/ \E continent \in Continents : FirstGame("continent", continent)

SpecBuild == InitBuild /\ [][NextBuild]_vars

-----------------------------------------------------------------------------
(* One long session of normal mode in which a single item is missed: every  *)
(* card is due, the first miss falls on question 1 or on question 10, and   *)
(* the item is missed again at most once                                    *)

RetryCatalog == 28      \* the catalog of the long session
MaxDrillMisses == 2     \* misses in the long session

FirstMissTicks == {1, 10}

Misses(tr) == Cardinality({i \in 1..Len(tr) : tr[i].kind = "miss"})

InitRetry ==
    /\ countries = Catalog(RetryCatalog)
    /\ now = Today
    /\ LET item == StoredItem([i \in 1..Len(countries) |->
                                  Reviewed(1, 1, Midnight(now))])
       IN  /\ storage = item
           /\ cards = TouchAll(loadData(item), CodesOf(countries))
    /\ currentMode = "normal"
    /\ selectedContinent = "none"
    /\ queue = <<>>
    /\ queueUndefined = FALSE
    /\ retryQueue = <<>>
    /\ currentCountry = NoCountry
    /\ questionCount = 0
    /\ answered = FALSE
    /\ screen = "main-menu"
    /\ complete = FALSE
    /\ pending = 0
    /\ events = 0
    /\ lastCall = NoCall
    /\ lastStep = NoStep
    /\ trail = <<>>
    /\ lastSelect = NoSelect

\* checkAnswer in the long session
Drill(isCorrect) ==
    /\ ~isCorrect =>
          /\ Misses(trail) < MaxDrillMisses
          /\ IF trail = <<>> THEN questionCount \in FirstMissTicks
             ELSE trail[1].code = currentCountry.code
    /\ Answer(isCorrect)
    /\ UNCHANGED events

NextRetry ==
    \/ FirstGame("normal", selectedContinent)
    \/ NextRound
    \/ \E isCorrect \in BOOLEAN : Drill(isCorrect)

SpecRetry == InitRetry /\ [][NextRetry]_vars

-----------------------------------------------------------------------------
(* One session of normal mode on a few items, all of them due, in which any *)
(* answer may be a miss, so that several retry entries wait at once         *)

CramCatalog == 3        \* the largest catalog of the session of many misses
MaxCramTick == 11       \* no answer is given after this many questions

InitCram ==
    /\ countries \in {Catalog(n) : n \in 1..CramCatalog}
    /\ now = Today
    /\ LET item == StoredItem([i \in 1..Len(countries) |->
                                  Reviewed(1, 1, Midnight(now))])
       IN  /\ storage = item
           /\ cards = TouchAll(loadData(item), CodesOf(countries))
    /\ currentMode = "normal"
    /\ selectedContinent = "none"
    /\ queue = <<>>
    /\ queueUndefined = FALSE
    /\ retryQueue = <<>>
    /\ currentCountry = NoCountry
    /\ questionCount = 0
    /\ answered = FALSE
    /\ screen = "main-menu"
    /\ complete = FALSE
    /\ pending = 0
    /\ events = 0
    /\ lastCall = NoCall
    /\ lastStep = NoStep
    /\ trail = <<>>
    /\ lastSelect = NoSelect

\* checkAnswer in the session of many misses
Cram(isCorrect) ==
    /\ questionCount <= MaxCramTick
    /\ Answer(isCorrect)
    /\ UNCHANGED events

NextCram ==
    \/ FirstGame("normal", selectedContinent)
    \/ NextRound
    \/ \E isCorrect \in BOOLEAN : Cram(isCorrect)

SpecCram == InitCram /\ [][NextCram]_vars

-----------------------------------------------------------------------------
(* One session of a finite-queue mode played to its end: the callback that  *)
(* showAnswerFeedback() sets always runs, every question put is answered,   *)
(* and the misses come to an end                                            *)

MaxLiveMisses == 2      \* misses in the session played to its end

\* checkAnswer in the session played to its end
LiveAnswer(isCorrect) ==
    /\ ~isCorrect => Misses(trail) < MaxLiveMisses
    /\ Answer(isCorrect)
    /\ UNCHANGED events

NextLive ==
    \/ \E mode \in {"normal", "hard"} : FirstGame(mode, selectedContinent)
    \/ \E continent \in Continents : FirstGame("continent", continent)
    \/ NextRound
    \/ \E isCorrect \in BOOLEAN : LiveAnswer(isCorrect)

\* setTimeout runs its callback, and the player answers the question on the
\* screen.  The first is weak fairness of NextRound, written out:
\* getNextCountry() always answers, so NextRound can run exactly when a
\* callback is pending
SpecLive ==
    /\ Init
    /\ [][NextLive]_vars
    /\ ([]<>(pending = 0) \/ []<><<NextRound>>_vars)
    /\ WF_vars(\E isCorrect \in BOOLEAN : LiveAnswer(isCorrect))

-----------------------------------------------------------------------------
(* startGame(mode) called with any string: the modes the buttons carry and  *)
(* one that no button carries                                               *)

ModeValues == Modes \cup {"daily"}

NextConfig ==
    \/ \E mode \in ModeValues \ {"continent"} :
          FirstGame(mode, selectedContinent)
    \/ NextRound
    \/ \E isCorrect \in BOOLEAN : CheckAnswer(isCorrect)

SpecConfig == Init /\ [][NextConfig]_vars

-----------------------------------------------------------------------------
(* The distractor selector alone: getDistractors and buildOptions called    *)
(* for every item of catalogs whose items carry colours and a layout, among *)
(* them catalogs where an item has more than 25 others and is like few      *)

SelectCatalog == 28     \* the largest catalog distractors are selected from

DISTRACTOR_COUNT == 3   \* getDistractors(correctCountry, count = 3)
SIMILAR_SCORE == 5      \* s.score >= 5
TOP_SCORED == 25        \* scored.slice(0, 25)

\* c.toLowerCase() on the colour names the catalogs use
Lower(c) ==
    IF c = "Red" THEN "red"
    ELSE IF c = "White" THEN "white"
    ELSE IF c = "Blue" THEN "blue"
    ELSE c

\* the colour arrays catalog items carry; some spell a colour with a capital
Palette(k) ==
    IF k = 0 THEN <<"red", "white">>
    ELSE IF k = 1 THEN <<"Red", "White">>
    ELSE IF k = 2 THEN <<"blue">>
    ELSE IF k = 3 THEN <<"green", "white", "Blue">>
    ELSE <<"white", "red", "Red">>

Place(x, colors, layout, i) ==
    [code |-> i, continent |-> x, colors |-> colors, layout |-> layout]

\* item i of a catalog with colours and layouts: two items alike in all
\* three attributes, one unlike them in all, one alike in layout only, and
\* from the fifth item on a mixture
Flag(i) ==
    IF i = 1 THEN Place("X", <<"red", "white">>, "stripes", i)
    ELSE IF i = 2 THEN Place("X", <<"red", "white">>, "stripes", i)
    ELSE IF i = 3 THEN Place("Y", <<"blue">>, "cross", i)
    ELSE IF i = 4 THEN Place("Y", <<"blue">>, "stripes", i)
    ELSE Place(IF i % 3 = 0 THEN "Y" ELSE "X", Palette(i % 5),
               IF i % 2 = 0 THEN "stripes" ELSE "cross", i)

FlagCatalog(n) == [i \in 1..n |-> Flag(i)]

\* item i of a catalog of few likenesses: the first item is like the second
\* and the third in nothing and like every later item in continent only,
\* and all the items but the first are alike in colours and layout
Plain(i) ==
    IF i = 1 THEN Place("Z", <<"black">>, "disc", i)
    ELSE Place(IF i <= 3 THEN "Y" ELSE "Z", <<"red">>, "stripes", i)

PlainCatalog(n) == [i \in 1..n |-> Plain(i)]

\* new Set(a.colors.map((c) => c.toLowerCase()))
ColorSet(a) == {Lower(a.colors[i]) : i \in 1..Len(a.colors)}

\* the score without the bonus for equal colour sets
getSimilarityScoreNoBonus(a, b) ==
    LET aColors == ColorSet(a)
        bColors == ColorSet(b)
        sharedColors == Cardinality(aColors \cap bColors)
    IN  (IF a.continent = b.continent THEN 2 ELSE 0)
        + sharedColors * 2
        + (IF a.layout = b.layout THEN 3 ELSE 0)

getSimilarityScore(a, b) ==
    LET aColors == ColorSet(a)
        bColors == ColorSet(b)
        sharedColors == Cardinality(aColors \cap bColors)
    IN  (IF a.continent = b.continent THEN 2 ELSE 0)
        + sharedColors * 2
        + (IF Cardinality(aColors) = Cardinality(bColors)
              /\ sharedColors = Cardinality(aColors) THEN 6 ELSE 0)
        + (IF a.layout = b.layout THEN 3 ELSE 0)

\* a filter that lets the correct country through
OthersWithTarget(cat, correctCountry) == cat

\* countries.filter((c) => c.code !== correctCountry.code)
Others(cat, correctCountry) ==
    Filter(cat, {c \in Range(cat) : c.code # correctCountry.code})

Scored(cat, correctCountry) ==
    LET others == Others(cat, correctCountry)
    IN  [i \in 1..Len(others) |->
            [country |-> others[i],
             score |-> getSimilarityScore(correctCountry, others[i])]]

\* e put into the sorted s behind every entry that scores no less
InsertByScore(s, e) ==
    LET k == Cardinality({i \in 1..Len(s) : s[i].score >= e.score})
    IN  SubSeq(s, 1, k) \o <<e>> \o SubSeq(s, k + 1, Len(s))

RECURSIVE SortByScore(_)
\* scored.sort((a, b) => b.score - a.score), a stable sort
SortByScore(scored) ==
    IF scored = <<>> THEN <<>>
    ELSE InsertByScore(SortByScore(SubSeq(scored, 1, Len(scored) - 1)),
                       scored[Len(scored)])

RECURSIVE TopSimilar(_)
\* scored.filter((s) => s.score >= 5)
TopSimilar(scored) ==
    IF scored = <<>> THEN <<>>
    ELSE IF Head(scored).score >= SIMILAR_SCORE
    THEN <<Head(scored)>> \o TopSimilar(Tail(scored))
    ELSE TopSimilar(Tail(scored))

\* the pool without the cut after the 25 items of the highest scores
DistractorPoolNoCut(cat, correctCountry, count) ==
    LET scored == SortByScore(Scored(cat, correctCountry))
        topSimilar == TopSimilar(scored)
    IN  IF Len(topSimilar) >= count THEN topSimilar ELSE scored

\* the array the distractors are drawn from, before it is shuffled
DistractorPool(cat, correctCountry, count) ==
    LET scored == SortByScore(Scored(cat, correctCountry))
        topSimilar == TopSimilar(scored)
    IN  IF Len(topSimilar) >= count THEN topSimilar
        ELSE SubSeq(scored, 1, Min(TOP_SCORED, Len(scored)))

\* every array getDistractors(correctCountry, count) can return
getDistractors(cat, correctCountry, count) ==
    {[i \in 1..Min(count, Len(pool)) |-> pool[i].country] :
        pool \in Shuffles(DistractorPool(cat, correctCountry, count))}

\* every array buildOptions(correct) can return once the distractors are drawn
buildOptions(correct, distractors) == Shuffles(<<correct>> \o distractors)

InitSelect ==
    /\ countries \in {FlagCatalog(n) : n \in 0..SelectCatalog}
                       \cup {PlainCatalog(n) :
                                n \in (SelectCatalog - 1)..SelectCatalog}
    /\ now = Today
    /\ storage = NoItem
    /\ cards = TouchAll(<<>>, CodesOf(countries))
    /\ currentMode = "normal"
    /\ selectedContinent = "none"
    /\ queue = <<>>
    /\ queueUndefined = FALSE
    /\ retryQueue = <<>>
    /\ currentCountry = NoCountry
    /\ questionCount = 0
    /\ answered = FALSE
    /\ screen = "main-menu"
    /\ complete = FALSE
    /\ pending = 0
    /\ events = 0
    /\ lastCall = NoCall
    /\ lastStep = NoStep
    /\ trail = <<>>
    /\ lastSelect = NoSelect

\* buildOptions(correct) for an item of the catalog, once from each catalog
Select(correct) ==
    /\ lastSelect = NoSelect
    /\ \E distractors \in getDistractors(countries, correct, DISTRACTOR_COUNT) :
       \E options \in buildOptions(correct, distractors) :
          lastSelect' = [target |-> correct, count |-> DISTRACTOR_COUNT,
                         distractors |-> distractors, options |-> options]
    /\ UNCHANGED <<countries, cards, now, gameVars, storage, lastCall>>

NextSelect == \E correct \in Range(countries) : Select(correct)

SpecSelect == InitSelect /\ [][NextSelect]_vars

-----------------------------------------------------------------------------
(* Claims on the review scheduler, checked under SpecSched *)

\* C1: after any sequence of recordCorrect (quality 3, 4 or 5) and
\* recordIncorrect calls on a card that starts with easeFactor >= 1.3, the
\* card's easeFactor is >= 1.3 in every reachable state.
C1_EaseFactorFloor ==
    \A c \in DOMAIN cards : cards[c].easeFactor >= 130

\* C1 witness: a hard answer (quality 3) on a card at 1.37, and a miss on a
\* card below 1.5, each of which would leave the floor without the max
C1_Witness ==
    \/ /\ lastCall.op = "processCorrect"
       /\ lastCall.quality = 3
       /\ lastCall.card.easeFactor = 137
       /\ cards[lastCall.code].easeFactor = 130
    \/ /\ lastCall.op = "processIncorrect"
       /\ lastCall.card.easeFactor = 137
       /\ lastCall.card.lapses > 0
       /\ cards[lastCall.code].easeFactor = 130

\* C2: recordIncorrect on any card, whatever its prior state, sets
\* repetitions to 0 and interval to 1, increases lapses by exactly 1, sets
\* easeFactor to max(1.3, easeFactor - 0.2) and sets nextReviewDate to
\* midnight of today + 1 day.
C2_RecordIncorrect ==
    lastCall.op = "processIncorrect" =>
        LET before == lastCall.card
            after == cards[lastCall.code]
        IN  /\ after.repetitions = 0
            /\ after.interval = 1
            /\ after.lapses = before.lapses + 1
            /\ after.easeFactor =
                  (IF before.easeFactor - 20 >= 130
                   THEN before.easeFactor - 20 ELSE 130)
            /\ after.nextReviewDate % SlotsPerDay = 0
            /\ after.nextReviewDate \div SlotsPerDay =
                  (lastCall.at \div SlotsPerDay) + 1

\* C2 witness: a miss, later than midnight, on a card that had repetitions,
\* a long interval and a review date
C2_Witness ==
    /\ lastCall.op = "processIncorrect"
    /\ lastCall.card.repetitions = 2
    /\ lastCall.card.interval = 15
    /\ lastCall.card.nextReviewDate # Null
    /\ lastCall.at % SlotsPerDay # 0
    /\ cards[lastCall.code].repetitions = 0

\* C3: recordCorrect(code, q) sets interval to 1 when repetitions was 0, to
\* 6 when repetitions was 1, and otherwise to round(old interval x the
\* just-updated easeFactor); it increases repetitions by exactly 1, sets
\* nextReviewDate to midnight of today + the new interval, and leaves lapses
\* unchanged; no scheduler operation decreases lapses.
C3_RecordCorrect ==
    /\ lastCall.op = "processCorrect" =>
        LET before == lastCall.card
            after == cards[lastCall.code]
            product == before.interval * after.easeFactor
        IN  /\ before.repetitions = 0 => after.interval = 1
            /\ before.repetitions = 1 => after.interval = 6
            /\ before.repetitions >= 2 =>
                  /\ 100 * after.interval <= product + 50
                  /\ product + 50 < 100 * after.interval + 100
            /\ after.repetitions = before.repetitions + 1
            /\ after.nextReviewDate % SlotsPerDay = 0
            /\ after.nextReviewDate \div SlotsPerDay =
                  (lastCall.at \div SlotsPerDay) + after.interval
            /\ after.lapses = before.lapses
    /\ lastCall.op # "none" =>
          cards[lastCall.code].lapses >= lastCall.card.lapses

\* C3 witness: a correct answer that changes the ease factor of a card with
\* two repetitions, an interval and a lapse, where the old and the new ease
\* factor give different intervals
C3_Witness ==
    /\ lastCall.op = "processCorrect"
    /\ lastCall.card.repetitions = 2
    /\ lastCall.card.interval = 15
    /\ lastCall.card.lapses = 1
    /\ cards[lastCall.code].easeFactor # lastCall.card.easeFactor
    /\ cards[lastCall.code].interval #
          (lastCall.card.interval * lastCall.card.easeFactor + 50) \div 100

\* C4: isDue is false for every card with repetitions = 0; for a card with
\* repetitions > 0 it is true when nextReviewDate is unset and otherwise true
\* exactly when nextReviewDate <= midnight(today), so the answer is the same
\* at every time of the same calendar day.
C4_IsDue ==
    lastCall.op = "isDue" =>
        LET card == lastCall.card
            day == lastCall.at \div SlotsPerDay
        IN  /\ card.repetitions = 0 => ~lastCall.due
            /\ (card.repetitions > 0 /\ card.nextReviewDate = Null) =>
                  lastCall.due
            /\ (card.repetitions > 0 /\ card.nextReviewDate # Null) =>
                  (lastCall.due <=> card.nextReviewDate <= day * SlotsPerDay)
            /\ \A slot \in 0..(SlotsPerDay - 1) :
                  isDue(card, day * SlotsPerDay + slot) = lastCall.due

\* C4 witness: isDue asked, later than midnight, of a reviewed card whose
\* review date lies between today's midnight and the time of the call
C4_Witness ==
    /\ lastCall.op = "isDue"
    /\ lastCall.card.repetitions > 0
    /\ lastCall.card.nextReviewDate # Null
    /\ lastCall.card.nextReviewDate > Midnight(lastCall.at)
    /\ lastCall.card.nextReviewDate <= lastCall.at
    /\ ~lastCall.due

\* the third correct answer of quality 4 in a row on a card that was fresh
ThirdCorrect == lastCall.op = "processCorrect" /\ lastCall.run = 3

\* C18 (amended): a fresh item answered correctly three times in a row with
\* quality 4 ends with repetitions = 3 and interval = round(6 x EF3) = 15,
\* EF3 = 2.5 being the ease factor after the third answer, and it is not due
\* at any time of the calendar day of the third answer.
C18_ThreeCorrect ==
    ThirdCorrect =>
        LET card == cards[lastCall.code]
            day == lastCall.at \div SlotsPerDay
        IN  /\ card.repetitions = 3
            /\ card.easeFactor = 250
            /\ card.interval = (6 * card.easeFactor + 50) \div 100
            /\ card.interval = 15
            /\ \A slot \in 0..(SlotsPerDay - 1) :
                  ~isDue(card, day * SlotsPerDay + slot)

\* C18 witness: the third answer was given later than midnight
C18_Witness ==
    /\ ThirdCorrect
    /\ lastCall.at % SlotsPerDay # 0
    /\ lastCall.card.repetitions = 2
    /\ lastCall.card.interval = 6

\* C18 as stated: the interval after the third answer is
\* round(6 x EF2 x EF3), EF2 and EF3 being the ease factors after the second
\* and the third answer.
C18_CompoundInterval ==
    ThirdCorrect =>
        LET ef2 == lastCall.card.easeFactor
            ef3 == cards[lastCall.code].easeFactor
        IN  /\ cards[lastCall.code].repetitions = 3
            /\ cards[lastCall.code].interval =
                  (6 * ef2 * ef3 + 5000) \div 10000

-----------------------------------------------------------------------------
(* Claims on the retry queue and the session controller, checked under Spec *)

\* the step, nextAt and item of every entry
Entries(rq) ==
    {[code |-> rq[i].code, step |-> rq[i].step, nextAt |-> rq[i].nextAt] :
        i \in 1..Len(rq)}

SomeDue(rq, tick) == \E i \in 1..Len(rq) : rq[i].nextAt <= tick

Asked == lastStep.op \in {"startGame", "nextRound"}

FiniteMode == currentMode \in {"normal", "hard", "continent"}

\* C5: in every reachable session state the retry queue holds at most one
\* entry per item code: schedule(item) on an item that already has an entry
\* creates no second entry and resets that entry's step to 0.
C5_OneEntryPerCode ==
    /\ \A i, j \in 1..Len(retryQueue) :
          retryQueue[i].code = retryQueue[j].code => i = j
    /\ (/\ lastStep.op = "checkAnswer"
        /\ ~lastStep.correct
        /\ \E i \in 1..Len(lastStep.retry) :
              lastStep.retry[i].code = lastStep.country.code)
       => /\ Len(retryQueue) = Len(lastStep.retry)
          /\ \A i \in 1..Len(retryQueue) :
                retryQueue[i].code = lastStep.country.code =>
                   retryQueue[i].step = 0

\* C5 witness: a miss on an item whose entry had already advanced a step
C5_Witness ==
    /\ lastStep.op = "checkAnswer"
    /\ ~lastStep.correct
    /\ Len(lastStep.retry) >= 2
    /\ \E i \in 1..Len(lastStep.retry) :
          /\ lastStep.retry[i].code = lastStep.country.code
          /\ lastStep.retry[i].step > 0

\* C6: popDue(currentTick) never returns an item whose entry had
\* nextAt > currentTick at the moment of the call; when no entry has
\* nextAt <= currentTick it returns none and leaves every entry's step and
\* nextAt unchanged.
C6_PopDueOnlyDue ==
    /\ LET r == popDueRetryCountry(retryQueue, questionCount)
       IN  /\ r.country # NoCountry =>
                \E i \in 1..Len(retryQueue) :
                   /\ retryQueue[i].country = r.country
                   /\ retryQueue[i].nextAt <= questionCount
           /\ ~SomeDue(retryQueue, questionCount) =>
                /\ r.country = NoCountry
                /\ Len(r.retryQueue) = Len(retryQueue)
                /\ Entries(r.retryQueue) = Entries(retryQueue)
    /\ Asked =>
          /\ lastStep.src = "retry" =>
                \E i \in 1..Len(lastStep.retry) :
                   /\ lastStep.retry[i].country = lastStep.country
                   /\ lastStep.retry[i].nextAt <= lastStep.tick
          /\ (~SomeDue(lastStep.retry, lastStep.tick)
              /\ lastStep.src \in {"main", "none", "threw"}) =>
                /\ Len(retryQueue) = Len(lastStep.retry)
                /\ Entries(retryQueue) = Entries(lastStep.retry)

\* C6 witness: nextRound found two entries, both for later ticks, and took
\* the next question from the main queue
C6_Witness ==
    /\ lastStep.op = "nextRound"
    /\ lastStep.src = "main"
    /\ Len(lastStep.retry) >= 2
    /\ ~SomeDue(lastStep.retry, lastStep.tick)
    /\ Entries(retryQueue) = Entries(lastStep.retry)

\* C7: on each question the controller takes the next item from the retry
\* queue whenever some retry entry is due at the current tick, and in that
\* case the main session queue is left unchanged; only when no retry entry
\* is due is the front item of the main queue consumed, and the main queue
\* is consumed strictly front-to-back.
C7_RetryBeforeMain ==
    Asked =>
        /\ SomeDue(lastStep.retry, lastStep.tick) =>
              /\ lastStep.src = "retry"
              /\ queue = lastStep.queue
              /\ currentCountry = lastStep.country
        /\ queue # lastStep.queue =>
              /\ ~SomeDue(lastStep.retry, lastStep.tick)
              /\ lastStep.queue # <<>>
              /\ currentCountry = Head(lastStep.queue)
              /\ queue = Tail(lastStep.queue)

\* C7 witness: an entry was due while the main queue still held items
C7_Witness ==
    /\ lastStep.op = "nextRound"
    /\ SomeDue(lastStep.retry, lastStep.tick)
    /\ lastStep.queue # <<>>
    /\ lastStep.src = "retry"

\* C8: in a finite-queue mode (normal, hard, continent) the session never
\* reaches Complete while the retry queue is non-empty: when the main queue
\* is exhausted and no retry entry is due, the entry with the smallest
\* nextAt is made eligible at the current tick and returned as the next
\* question.
C8_NoEarlyComplete ==
    /\ (FiniteMode /\ complete) => retryQueue = <<>>
    /\ (/\ FiniteMode
        /\ lastStep.op = "nextRound"
        /\ lastStep.queue = <<>>
        /\ lastStep.retry # <<>>
        /\ ~SomeDue(lastStep.retry, lastStep.tick))
       => /\ lastStep.src = "forced"
          /\ currentCountry = lastStep.country
          /\ questionCount = lastStep.tick + 1
          /\ \E i \in 1..Len(lastStep.retry) :
                /\ lastStep.retry[i].country = lastStep.country
                /\ \A j \in 1..Len(lastStep.retry) :
                      lastStep.retry[i].nextAt <= lastStep.retry[j].nextAt

\* C8 witness: the main queue ran out with two entries waiting for
\* different later ticks
C8_Witness ==
    /\ FiniteMode
    /\ lastStep.op = "nextRound"
    /\ lastStep.src = "forced"
    /\ lastStep.queue = <<>>
    /\ Len(lastStep.retry) = 2
    /\ lastStep.retry[1].nextAt # lastStep.retry[2].nextAt
    /\ ~complete

-----------------------------------------------------------------------------
(* Claims on the queue builder *)

\* the pool of the session just started, and its partitions as the cards
\* stood when the queue was built
BuiltPool ==
    {countries[i] : i \in {j \in 1..Len(countries) :
        currentMode = "continent" =>
            countries[j].continent = selectedContinent}}

BuiltDue ==
    {c \in BuiltPool :
        LET card == getCard(cards, c.code)
        IN  /\ card.repetitions > 0
            /\ \/ card.nextReviewDate = Null
               \/ card.nextReviewDate <=
                     (lastStep.at \div SlotsPerDay) * SlotsPerDay}

BuiltNew == {c \in BuiltPool : getCard(cards, c.code).repetitions = 0}

\* C9: for an SRS mode, build returns a sequence with no item code twice,
\* made of every due item of the pool (the whole catalog for full SRS, the
\* items of the requested category for category-restricted SRS) followed by
\* exactly min(newPerSession, number of zero-repetition items in the pool)
\* new items, newPerSession being 15 for full SRS and 8 for
\* category-restricted SRS; no item outside the pool appears.
C9_SrsBlend ==
    (lastStep.op = "startGame" /\ FiniteMode) =>
        LET q == lastStep.queue
            limit == IF currentMode = "continent" THEN 8 ELSE 15
            nDue == Cardinality(BuiltDue)
            nNew == Cardinality(BuiltNew)
        IN  /\ \A i, j \in 1..Len(q) : q[i].code = q[j].code => i = j
            /\ \A i \in 1..Len(q) : q[i] \in BuiltPool
            /\ Len(q) = nDue + (IF nNew < limit THEN nNew ELSE limit)
            /\ {q[i] : i \in 1..Len(q) \cap 1..nDue} = BuiltDue
            /\ \A i \in 1..Len(q) : i > nDue => q[i] \in BuiltNew

\* C9 witness: a continent session whose pool holds due items, items not
\* due, lapsed items and more than 8 new items
C9_Witness ==
    /\ lastStep.op = "startGame"
    /\ currentMode = "continent"
    /\ Cardinality(BuiltNew) > 8
    /\ Cardinality(BuiltDue) >= 2
    /\ BuiltPool # BuiltDue \cup BuiltNew
    /\ \E c \in BuiltNew : getCard(cards, c.code).lapses > 0
    /\ Len(lastStep.queue) = Cardinality(BuiltDue) + 8

\* C10: in the unrestricted-random modes (endless, timed), build returns a
\* permutation of the entire catalog (every catalog item exactly once, no
\* SRS filtering), so that the session can present a first question.
\* Stated for a session started on a catalog that holds items.
C10_RandomModesShuffleCatalog ==
    (/\ lastStep.op = "startGame"
     /\ Unrestricted(currentMode)
     /\ countries # <<>>) =>
        /\ ~queueUndefined
        /\ Len(lastStep.queue) = Len(countries)
        /\ \A i \in 1..Len(countries) :
              \E j \in 1..Len(lastStep.queue) :
                 lastStep.queue[j] = countries[i]
        /\ currentCountry # NoCountry
        /\ questionCount = 1

-----------------------------------------------------------------------------
(* Claims on the answer handler, checked under Spec *)

\* an answer was handled to its end: a question was on the screen
Handled == lastStep.op = "checkAnswer"

\* C11: on every answer submission, in every mode (continent included), the
\* card of the current item is updated by exactly one of recordCorrect (on a
\* match) or recordIncorrect (on a miss), and on a miss the retry queue gets
\* an entry for the current item.
C11_AnswerUpdatesCard ==
    Handled =>
        LET code == lastStep.country.code
        IN  /\ lastCall.code = code
            /\ lastCall.at = lastStep.at
            /\ lastStep.correct =>
                  /\ lastCall.op = "processCorrect"
                  /\ cards[code] = processCorrect(lastCall.card, 4, lastStep.at)
            /\ ~lastStep.correct =>
                  /\ lastCall.op = "processIncorrect"
                  /\ cards[code] = processIncorrect(lastCall.card, lastStep.at)
                  /\ \E i \in 1..Len(retryQueue) : retryQueue[i].code = code

\* the card map a reload of the page would read
Persisted == loadData(storage)

C14_SessionEndDiscards ==
    [][screen' # screen =>
          /\ \A c \in DOMAIN cards : c \in DOMAIN cards' /\ cards'[c] = cards[c]
          /\ screen' = "main-menu" =>
                /\ retryQueue' = <<>>
                /\ queue' = <<>>
                /\ currentCountry' = NoCountry
                /\ questionCount' = 0
          /\ screen' = "game-screen" => retryQueue' = <<>>]_vars

\* C15: starting a session with a mode value that is none of normal, hard,
\* continent, endless, timed ends in an error and builds no queue; no
\* session runs under it as if it were another mode.
C15_UnknownModeFailsFast ==
    currentMode \notin Modes =>
        /\ lastStep.src = "threw"
        /\ lastStep.queue = <<>>
        /\ queue = <<>>
        /\ currentCountry = NoCountry

\* C16: starting a session when the catalog is empty never yields an empty
\* session that goes straight to the Complete outcome.
C16_EmptyCatalogSignalled ==
    (lastStep.op = "startGame" /\ countries = <<>>) => ~complete

\* C20: schedule(item) at tick t sets the item's entry to step 0 and
\* nextAt = t + gaps[0] (= t + 2), both when the entry is new and when an
\* entry for the item already exists.
C20_ScheduleGap ==
    (Handled /\ ~lastStep.correct) =>
        \E i \in 1..Len(retryQueue) :
            /\ retryQueue[i].code = lastStep.country.code
            /\ retryQueue[i].step = 0
            /\ retryQueue[i].nextAt = lastStep.tick + 2

-----------------------------------------------------------------------------
(* Claims on lapsed cards, checked under Spec *)

LaterDays == 3          \* the days after today on which the partitions are looked at

\* the clock readings from now to the end of the last later day
LaterTimes == now..(Midnight(now) + (LaterDays + 1) * SlotsPerDay - 1)

\* the pools a queue is built from: the catalog and the items of a continent
Pools == {countries} \cup {ContinentPool(countries, x) : x \in Continents}

\* the catalog item of code
ItemOf(code) == CHOOSE c \in Range(countries) : c.code = code

\* the most recent scheduler call was a recordIncorrect
JustLapsed == lastCall.op = "processIncorrect"

\* C24: a card whose most recent outcome is recordIncorrect is never in the
\* due partition on any later day, whatever its nextReviewDate, because its
\* repetitions is 0; the queue builder puts it in the new partition, subject
\* to the newPerSession limit.  Consequently the due and new partitions of
\* any pool are always disjoint, and every card reachable through scheduler
\* operations with repetitions >= 1 has interval >= 1 and a set
\* nextReviewDate.
C24_LapsedIsNew ==
    /\ JustLapsed =>
          LET card == cards[lastCall.code]
              item == ItemOf(lastCall.code)
              q == lastStep.queue
              limit == IF currentMode = "continent" THEN 8 ELSE 15
          IN  /\ card.repetitions = 0
              /\ \A t \in LaterTimes :
                    /\ ~isDue(card, t)
                    /\ \A pool \in Pools :
                          item \notin Range(DuePartition(pool, cards, t))
              /\ \A pool \in Pools :
                    item \in Range(pool) =>
                       item \in Range(NewPartition(pool, cards))
              /\ (lastStep.op = "startGame" /\ FiniteMode
                  /\ item \in BuiltPool) =>
                    /\ Cardinality({i \in 1..Len(q) :
                           getCard(cards, q[i].code).repetitions = 0}) <= limit
                    /\ \A i \in 1..Len(q) :
                          q[i] = item => i > Cardinality(BuiltDue)
                    /\ Cardinality(BuiltNew) <= limit =>
                          \E i \in 1..Len(q) : q[i] = item
    /\ \A pool \in Pools : \A t \in LaterTimes :
          Range(DuePartition(pool, cards, t))
             \cap Range(NewPartition(pool, cards)) = {}
    /\ \A c \in DOMAIN cards :
          cards[c].repetitions >= 1 =>
             /\ cards[c].interval >= 1
             /\ cards[c].nextReviewDate # Null
             /\ cards[c].nextReviewDate > 0

\* C24 witness: a session was started on a later day than the miss, when
\* the review date of the lapsed card had come, with another card due
C24_Witness ==
    /\ JustLapsed
    /\ lastCall.card.repetitions > 0
    /\ lastStep.op = "startGame"
    /\ FiniteMode
    /\ lastStep.at \div SlotsPerDay > lastCall.at \div SlotsPerDay
    /\ cards[lastCall.code].nextReviewDate <= Midnight(lastStep.at)
    /\ \E i \in 1..Len(lastStep.queue) :
          lastStep.queue[i] = ItemOf(lastCall.code)

-----------------------------------------------------------------------------
(* Claims on the retry schedule, checked under SpecRetry *)

\* the session has had one miss, and since then only retry questions taken
\* because they were due
OneMissThenRetries ==
    /\ trail # <<>>
    /\ trail[1].kind = "miss"
    /\ \A i \in 2..Len(trail) : trail[i].kind = "retry"

\* the ticks at which an item missed at tick t is due to reappear
DueTicks(t) == <<t + 2, t + 2 + 5, t + 2 + 5 + 9>>

\* C17 (amended): with gaps [2, 5, 9], an item missed once at question tick
\* t (10 in the scenario) is taken from the retry queue exactly at tick
\* t + 2 (12); when it is not missed again it is taken again at tick t + 7
\* (17) and at tick t + 16 (26), and is then retired from the retry queue.
C17_RetrySpacing ==
    OneMissThenRetries =>
        LET due == DueTicks(trail[1].tick)
            code == trail[1].code
            taken == Len(trail) - 1
        IN  /\ taken <= 3
            /\ \A i \in 1..taken : trail[i + 1].tick = due[i]
            /\ taken = 3 =>
                  \A i \in 1..Len(retryQueue) : retryQueue[i].code # code
            /\ taken < 3 =>
                  /\ questionCount <= due[taken + 1]
                  /\ \E i \in 1..Len(retryQueue) :
                        /\ retryQueue[i].code = code
                        /\ retryQueue[i].nextAt = due[taken + 1]

\* C17 witness: the item missed at tick 10 has been taken at ticks 12, 17 and
\* 26 and has left the retry queue
C17_Witness ==
    /\ OneMissThenRetries
    /\ trail[1].tick = 10
    /\ Len(trail) = 4
    /\ trail[4].tick = 26
    /\ retryQueue = <<>>

\* C17 as stated: an item missed at tick 10 reappears at tick 12; missed
\* again on that reappearance, it reappears at tick 17.
C17_SecondMissKeepsSchedule ==
    (/\ Len(trail) >= 4
     /\ trail[1] = Mark("miss", trail[1].code, 10)
     /\ trail[2] = Mark("retry", trail[1].code, 12)
     /\ trail[3].kind = "miss"
     /\ trail[4].kind = "retry")
    => trail[4].tick = 17

-----------------------------------------------------------------------------
(* Claims on the order and the steps of the retry queue, checked under      *)
(* SpecCram                                                                 *)

Front(s) == SubSeq(s, 1, Len(s) - 1)

RECURSIVE EntryStep(_, _)
\* the step of the entry of code once the misses and retry questions of tr
\* have happened, -1 when the item has no entry
EntryStep(tr, code) ==
    IF tr = <<>> THEN -1
    ELSE LET m == tr[Len(tr)]
             before == EntryStep(Front(tr), code)
         IN  IF m.code # code THEN before
             ELSE IF m.kind = "miss" THEN 0
             ELSE IF before >= 2 THEN -1
             ELSE before + 1

RECURSIVE InsertedAt(_, _)
\* the place in tr of the miss that put the entry of code into the retry
\* queue, 0 when the item has no entry
InsertedAt(tr, code) ==
    IF tr = <<>> THEN 0
    ELSE LET m == tr[Len(tr)]
         IN  IF m.code # code THEN InsertedAt(Front(tr), code)
             ELSE IF m.kind = "miss"
             THEN IF EntryStep(Front(tr), code) = -1 THEN Len(tr)
                  ELSE InsertedAt(Front(tr), code)
             ELSE IF EntryStep(tr, code) = -1 THEN 0
             ELSE InsertedAt(Front(tr), code)

\* the entry of code in rq
EntryOf(rq, code) == rq[IndexOfCode(rq, code)]

\* nextRound took a retry entry that was due
PoppedDue == lastStep.op = "nextRound" /\ lastStep.src = "retry"

\* C21: when several retry entries are due at the current tick, popDue
\* returns the one with the smallest nextAt, and among entries with equal
\* nextAt the one that was inserted into the retry queue first, after any
\* sequence of earlier schedule and popDue calls.
C21_PopOrder ==
    PoppedDue =>
        LET rq == lastStep.retry
            e == EntryOf(rq, lastStep.country.code)
            earlier == Front(trail)
        IN  \A i \in 1..Len(rq) :
               (rq[i].code # e.code /\ rq[i].nextAt <= lastStep.tick) =>
                  \/ e.nextAt < rq[i].nextAt
                  \/ /\ e.nextAt = rq[i].nextAt
                     /\ InsertedAt(earlier, e.code)
                           < InsertedAt(earlier, rq[i].code)

\* nextRound took a retry entry, due or forced
Popped == lastStep.op = "nextRound" /\ lastStep.src \in {"retry", "forced"}

\* the misses and retry questions of one item
MarksOf(tr, code) ==
    LET OfCode(m) == m.code = code
    IN  SelectSeq(tr, OfCode)

\* the item was missed once, and not again
MissedOnce(marks) ==
    /\ marks # <<>>
    /\ marks[1].kind = "miss"
    /\ \A i \in 2..Len(marks) : marks[i].kind # "miss"

\* the entries of rq other than the one of code
OtherEntries(rq, code) == {e \in Entries(rq) : e.code # code}

\* C22 (amended): a popDue that returns an entry at tick t removes the entry
\* when its step is the last index of the gap schedule [2, 5, 9], and
\* otherwise increases its step by exactly 1 and sets nextAt = t + gaps[new
\* step], leaving the other entries as they are; hence an entry that is
\* scheduled once and not missed again is returned exactly 3 times and is
\* then absent from the retry queue, each time scheduled a longer gap ahead
\* (2, 5, 9), and a return that is not forced comes no sooner than that gap
\* after the miss or return before it.
C22_PopAdvances ==
    /\ Popped =>
          LET rq == lastStep.retry
              code == lastStep.country.code
              e == EntryOf(rq, code)
              t == lastStep.tick
          IN  /\ IndexOfCode(rq, code) > 0
              /\ e.step = 2 => IndexOfCode(retryQueue, code) = 0
              /\ e.step < 2 =>
                    /\ IndexOfCode(retryQueue, code) > 0
                    /\ EntryOf(retryQueue, code).step = e.step + 1
                    /\ EntryOf(retryQueue, code).nextAt =
                          t + <<2, 5, 9>>[e.step + 2]
              /\ OtherEntries(retryQueue, code) = OtherEntries(rq, code)
              /\ Len(retryQueue) = Len(rq) - (IF e.step = 2 THEN 1 ELSE 0)
    /\ \A c \in CodesOf(countries) :
          LET marks == MarksOf(trail, c)
              taken == Len(marks) - 1
          IN  MissedOnce(marks) =>
                 /\ taken <= 3
                 /\ taken = 3 => IndexOfCode(retryQueue, c) = 0
                 /\ taken < 3 =>
                       /\ IndexOfCode(retryQueue, c) > 0
                       /\ EntryOf(retryQueue, c).step = taken
                       /\ EntryOf(retryQueue, c).nextAt =
                             marks[Len(marks)].tick + <<2, 5, 9>>[taken + 1]
                 /\ \A i \in 1..taken :
                       marks[i + 1].kind = "retry" =>
                          marks[i + 1].tick >= marks[i].tick + <<2, 5, 9>>[i]

\* C22 witness: an item missed once has been returned three times, first
\* when it was due and then forced, and has left the retry queue while
\* another item still has its entry
C22_Witness ==
    /\ Popped
    /\ retryQueue # <<>>
    /\ LET marks == MarksOf(trail, lastStep.country.code)
       IN  /\ MissedOnce(marks)
           /\ Len(marks) = 4
           /\ marks[2].kind = "retry"
           /\ marks[4].kind = "forced"
           /\ IndexOfCode(retryQueue, lastStep.country.code) = 0

\* C22 as stated: the three returns of an entry that is scheduled once and
\* not missed again lie at strictly increasing gaps.
C22_IncreasingGaps ==
    \A c \in CodesOf(countries) :
        LET marks == MarksOf(trail, c)
        IN  (MissedOnce(marks) /\ Len(marks) = 4) =>
               /\ marks[2].tick - marks[1].tick < marks[3].tick - marks[2].tick
               /\ marks[3].tick - marks[2].tick < marks[4].tick - marks[3].tick

-----------------------------------------------------------------------------
(* Claims on the end of a session, checked under SpecLive *)

RECURSIVE ExposuresLeft(_)
\* the questions the entries of rq still stand for: 3 for an entry on step
\* 0, 2 on step 1, 1 on step 2
ExposuresLeft(rq) ==
    IF rq = <<>> THEN 0
    ELSE (3 - Head(rq).step) + ExposuresLeft(Tail(rq))

\* the questions the session still has to put when no answer is a miss
QuestionsLeft == Len(queue) + ExposuresLeft(retryQueue)

\* every answer from here on is correct
NoMiss == Handled => lastStep.correct

\* C25: in a finite-queue mode (normal, hard, continent), if from some
\* point on every answer is correct, the session eventually reaches
\* Complete: the main queue only shrinks, no retry entry is created or reset
\* by a correct answer, and each question put takes one from the questions
\* the main queue and the retry entries (at most 3 each) still stand for.
C25_SessionCompletes ==
    /\ [][screen = "game-screen" => Len(queue') <= Len(queue)]_vars
    /\ [][(answered' /\ ~answered /\ lastStep'.correct) =>
             (retryQueue' = retryQueue /\ queue' = queue)]_vars
    /\ [][questionCount' # questionCount =>
             /\ questionCount' = questionCount + 1
             /\ screen = "game-screen" =>
                    QuestionsLeft' = QuestionsLeft - 1]_vars
    /\ [][(complete' /\ ~complete) => QuestionsLeft = 0]_vars
    /\ (<>[]NoMiss) => ((screen = "game-screen" /\ FiniteMode) ~> complete)

\* C25 witness: a session of normal mode in which items were missed, one of
\* them on its return from the retry queue, has reached Complete
C25_Witness ==
    /\ complete
    /\ currentMode = "normal"
    /\ Misses(trail) = 2
    /\ Len(trail) >= 5
    /\ \E i \in 2..Len(trail) :
          /\ trail[i].kind = "miss"
          /\ trail[i - 1].kind \in {"retry", "forced"}
          /\ trail[i - 1].code = trail[i].code
    /\ retryQueue = <<>>
    /\ queue = <<>>

-----------------------------------------------------------------------------
(* Claims on the distractor selector, checked under SpecSelect *)

Selected == lastSelect.count > 0

\* the catalog items other than the target of the last call
NonTargets == {c \in Range(countries) : c.code # lastSelect.target.code}

\* C12: for every target and every catalog, select(target, pool, 3)
\* returns distinct items, never the target, and exactly min(3, number of
\* non-target items) of them; with fewer than 3 non-target items it returns
\* all of them.
C12_DistractorCount ==
    Selected =>
        LET d == lastSelect.distractors
            n == Cardinality(NonTargets)
        IN  /\ \A i, j \in 1..Len(d) : d[i] = d[j] => i = j
            /\ \A i \in 1..Len(d) : d[i] \in NonTargets
            /\ Len(d) = (IF n < 3 THEN n ELSE 3)
            /\ n < 3 => {d[i] : i \in 1..Len(d)} = NonTargets
            /\ Len(lastSelect.options) = Len(d) + 1

\* C12 witness: a catalog of three items, where the two other items are all
\* the distractors there are
C12_Witness ==
    /\ Selected
    /\ Len(countries) = 3
    /\ Len(lastSelect.distractors) = 2

\* the catalog of the scenario: A and B on continent X with colours red and
\* white and layout stripes, C on continent Y, blue, layout cross, D on
\* continent Y, blue, layout stripes
IsScenario ==
    /\ Len(countries) = 4
    /\ \A i \in {1, 2} :
          /\ countries[i].continent = "X"
          /\ ColorSet(countries[i]) = {"red", "white"}
          /\ countries[i].layout = "stripes"
    /\ \A i \in {3, 4} :
          /\ countries[i].continent = "Y"
          /\ ColorSet(countries[i]) = {"blue"}
    /\ countries[3].layout = "cross"
    /\ countries[4].layout = "stripes"

ScenarioSelect == IsScenario /\ Selected /\ lastSelect.target = countries[1]

\* C19 (amended): for the catalog A, B, C, D of the scenario,
\* select(A, [B, C, D], 3) returns exactly {B, C, D}, and the similarity
\* scores to A are B = 15, D = 3 and C = 0, B being the highest.
C19_ScenarioScores ==
    ScenarioSelect =>
        LET d == lastSelect.distractors
            A == countries[1]
        IN  /\ Len(d) = 3
            /\ {d[i] : i \in 1..Len(d)} =
                  {countries[2], countries[3], countries[4]}
            /\ getSimilarityScore(A, countries[2]) = 15
            /\ getSimilarityScore(A, countries[4]) = 3
            /\ getSimilarityScore(A, countries[3]) = 0

\* C19 witness: the distractors of A were selected from the scenario catalog
C19_Witness ==
    /\ ScenarioSelect
    /\ lastSelect.distractors[1] = countries[3]

\* C19 as stated: the similarity scores to A are B = 15, D = 5 and C = 0.
C19_ScoresAsStated ==
    ScenarioSelect =>
        /\ getSimilarityScore(countries[1], countries[2]) = 15
        /\ getSimilarityScore(countries[1], countries[4]) = 5
        /\ getSimilarityScore(countries[1], countries[3]) = 0

\* the non-target items that score at least 5 against the target
HighSimilarity ==
    {c \in NonTargets : getSimilarityScore(lastSelect.target, c) >= 5}

\* the non-target items that score more than c against the target
ScoringAbove(c) ==
    {o \in NonTargets :
        getSimilarityScore(lastSelect.target, o)
            > getSimilarityScore(lastSelect.target, c)}

\* C23: when at least count non-target items have similarity score >= 5 to
\* the target, every item returned by select has score >= 5; otherwise
\* every returned item is among the 25 highest-scored non-target items
\* (fewer than 25 non-target items score more than it).
C23_PoolPolicy ==
    Selected =>
        LET d == lastSelect.distractors
        IN  IF Cardinality(HighSimilarity) >= lastSelect.count
            THEN \A i \in 1..Len(d) : d[i] \in HighSimilarity
            ELSE \A i \in 1..Len(d) : Cardinality(ScoringAbove(d[i])) < 25

\* C23 witness: fewer than 3 items are like the target, more than 25 items
\* are not the target, and some of them lie behind the 25 highest scores
C23_Witness ==
    /\ Selected
    /\ Cardinality(HighSimilarity) < 3
    /\ Cardinality(NonTargets) > 25
    /\ \E c \in NonTargets : Cardinality(ScoringAbove(c)) >= 25
    /\ Len(lastSelect.distractors) = 3

====
